---- MODULE Spec2Model ----
(***************************************************************************)
(* A model of the bitboard chess variant: class Board (src/board.py) and   *)
(* class ChessVar (src/chessVar.py).                                       *)
(*                                                                         *)
(* A Python integer used as a bitboard is modelled as the set of the       *)
(* indices of its set bits (bit i = square i = 8*rank + file), so that     *)
(* &, |, ~, << and >> are intersection, union, difference and translation  *)
(* of index sets, with no 64-bit truncation (Python integers have none).   *)
(***************************************************************************)
EXTENDS Integers, Sequences, FiniteSets, TLC

\* ------------------------------------------------------------------------
\* Bounds of the model
\* ------------------------------------------------------------------------

\* The number of ChessVar.make_move calls explored after an opening move.
MaxReplies == 2

\* The number of Board.execute_move calls explored on a Board used directly.
MaxCalls == 4

\* The number of ChessVar.make_move calls explored in a game.
MaxMoves == 6

\* ------------------------------------------------------------------------
\* Python values
\* ------------------------------------------------------------------------

\* Python's None where an index (0..5) or a name is expected.
None == -1

\* ------------------------------------------------------------------------
\* Integers as bitboards
\* ------------------------------------------------------------------------

\* The set bits of one byte value v (0..255).
ByteBits(v) == {k \in 0..7 : (v \div (2^k)) % 2 = 1}

\* The bitboard of a 64-bit hexadecimal literal, given as its eight bytes,
\* most significant first: 0xff01010101010101 is Hex(<<255,1,1,1,1,1,1,1>>).
Hex(bytes) == UNION {{8 * (8 - i) + k : k \in ByteBits(bytes[i])} : i \in 1..8}

\* x << n
Shl(x, n) == {b + n : b \in x}

\* x >> n
Shr(x, n) == {b - n : b \in {c \in x : c >= n}}

\* -0xffff000000000000 in two's complement: bit 48, no bit in 49..63 and
\* every bit from 64 upward (cut at bit 127, above every bit a move uses).
NegNorthBoundary == {48} \cup (64..127)

RankMask1 == Hex(<<0, 0, 0, 0, 0, 0, 0, 255>>)
RankMask1And2 == Hex(<<0, 0, 0, 0, 0, 0, 255, 255>>)
RankMask2_two_digits_short == Hex(<<0, 0, 0, 0, 0, 0, 0, 255>>)
RankMask2 == Hex(<<0, 0, 0, 0, 0, 0, 255, 0>>)
RankMask7_two_digits_short == Hex(<<0, 0, 255, 0, 0, 0, 0, 0>>)
RankMask7 == Hex(<<0, 255, 0, 0, 0, 0, 0, 0>>)
RankMask8 == Hex(<<255, 0, 0, 0, 0, 0, 0, 0>>)
FileMaskA == Hex(<<1, 1, 1, 1, 1, 1, 1, 1>>)
FileMaskH == Hex(<<128, 128, 128, 128, 128, 128, 128, 128>>)
NorthHalf == Hex(<<255, 255, 255, 255, 0, 0, 0, 0>>)
WestHalf == Hex(<<15, 15, 15, 15, 15, 15, 15, 15>>)
WestBoundary_file_a_only == Hex(<<1, 1, 1, 1, 1, 1, 1, 1>>)
WestBoundary == Hex(<<3, 3, 3, 3, 3, 3, 3, 3>>)
EastBoundary == Hex(<<192, 192, 192, 192, 192, 192, 192, 192>>)
EdgeNW == Hex(<<255, 1, 1, 1, 1, 1, 1, 1>>)
EdgeNE == Hex(<<255, 128, 128, 128, 128, 128, 128, 128>>)
EdgeSE == Hex(<<128, 128, 128, 128, 128, 128, 128, 255>>)
EdgeSW == Hex(<<1, 1, 1, 1, 1, 1, 1, 255>>)

\* ------------------------------------------------------------------------
\* Characters and square labels
\* ------------------------------------------------------------------------

\* Characters in code-point order: "A" is 65, "a" is 97, "0" is 48.
UpperRow == <<"A", "B", "C", "D", "E", "F", "G", "H", "I">>
LowerRow == <<"a", "b", "c", "d", "e", "f", "g", "h", "i">>
DigitRow == <<"0", "1", "2", "3", "4", "5", "6", "7", "8", "9">>

IndexIn(row, c) == CHOOSE i \in 1..Len(row) : row[i] = c
InRow(row, c) == \E i \in 1..Len(row) : row[i] = c

\* ord(c)
Ord(c) ==
    IF InRow(UpperRow, c) THEN 64 + IndexIn(UpperRow, c)
    ELSE IF InRow(LowerRow, c) THEN 96 + IndexIn(LowerRow, c)
    ELSE 47 + IndexIn(DigitRow, c)

\* c.upper(): the letters a..i become A..I, every other character is kept.
UpperChar(c) ==
    IF InRow(LowerRow, c) THEN UpperRow[IndexIn(LowerRow, c)] ELSE c

\* s.upper() of a string, a sequence of characters.
Upper(s) == [i \in 1..Len(s) |-> UpperChar(s[i])]

\* int(c) of a one-character string: defined on the decimal digits only.
IsDigit(c) == InRow(DigitRow, c)
IntOf(c) == IndexIn(DigitRow, c) - 1

\* A Python value passed as a location: a str with its characters, or a
\* value of another type (an int, None, ...), which has no characters.
Str(chars) == [type |-> "str", val |-> chars]
NotAStr == [type |-> "int", val |-> <<>>]

\* The result of a call that returns a bitboard, returns None or raises.
Returned(bb) == [kind |-> "value", bb |-> bb]
ReturnedNone == [kind |-> "None", bb |-> {}]
Raised(exc) == [kind |-> exc, bb |-> {}]

\* Board.convert_to_bitboard with file and rank exchanged in the shift.
convert_to_bitboard_transposed(location) ==
    IF location.type # "str" THEN ReturnedNone
    ELSE IF Len(location.val) # 2 THEN ReturnedNone
    ELSE LET file == Ord(UpperChar(location.val[1])) - Ord("A")
         IN  IF ~IsDigit(location.val[2]) THEN Raised("ValueError")
             ELSE LET rank == IntOf(location.val[2]) - 1
                  IN  IF file < 0 \/ file > 7 THEN ReturnedNone
                      ELSE IF rank < 0 \/ rank > 7 THEN ReturnedNone
                      ELSE Returned(Shl({0}, 8 * file + rank))

\* Board.convert_to_bitboard: None for a non-string and for a wrong length,
\* then file = ord(location[0].upper()) - ord('A') and
\* rank = int(location[1]) - 1, where int() raises ValueError on a
\* character that is no digit, before either range is tested.
convert_to_bitboard(location) ==
    IF location.type # "str" THEN ReturnedNone
    ELSE IF Len(location.val) # 2 THEN ReturnedNone
    ELSE LET file == Ord(UpperChar(location.val[1])) - Ord("A")
         IN  IF ~IsDigit(location.val[2]) THEN Raised("ValueError")
             ELSE LET rank == IntOf(location.val[2]) - 1
                  IN  IF file < 0 \/ file > 7 THEN ReturnedNone
                      ELSE IF rank < 0 \/ rank > 7 THEN ReturnedNone
                      ELSE Returned(Shl({0}, 8 * rank + file))

\* ------------------------------------------------------------------------
\* class Board: state
\* ------------------------------------------------------------------------

\* self._piece_names
piece_names == <<"Pawn", "Rook", "Knight", "Bishop", "Queen", "King">>

\* The fields of a Board after __init__, which ends with setup_new_board:
\* the two piece lists are indexed 0..5 as in the source.
setup_new_board ==
    [ current_turn |-> "White",
      piece_moved_index |-> None,
      piece_captured_index |-> None,
      white_pieces_list |->
          [i \in 0..5 |->
              CASE i = 0 -> Shl(ByteBits(255), 8)
                [] i = 1 -> ByteBits(129)
                [] i = 2 -> ByteBits(66)
                [] i = 3 -> ByteBits(36)
                [] i = 4 -> ByteBits(8)
                [] i = 5 -> ByteBits(16)],
      black_pieces_list |->
          [i \in 0..5 |->
              CASE i = 0 -> Shl(ByteBits(255), 8 * 6)
                [] i = 1 -> Shl(ByteBits(129), 8 * 7)
                [] i = 2 -> Shl(ByteBits(66), 8 * 7)
                [] i = 3 -> Shl(ByteBits(36), 8 * 7)
                [] i = 4 -> Shl(ByteBits(8), 8 * 7)
                [] i = 5 -> Shl(ByteBits(16), 8 * 7)],
      all_white_pieces_bb |-> Hex(<<0, 0, 0, 0, 0, 0, 255, 255>>),
      all_black_pieces_bb |-> Hex(<<255, 255, 0, 0, 0, 0, 0, 0>>),
      all_pieces_bb |-> Hex(<<255, 255, 0, 0, 0, 0, 255, 255>>) ]

\* Board.set_next_turn
set_next_turn_skipped(b) == b
set_next_turn(b) ==
    [b EXCEPT !.current_turn = IF b.current_turn = "White" THEN "Black" ELSE "White"]

\* Board.get_piece_moved: indexes _piece_names with _piece_moved_index (a
\* TypeError when it is None), clears the index and returns the name.
get_piece_moved(b) ==
    IF b.piece_moved_index = None
    THEN [board |-> b, ret |-> "TypeError"]
    ELSE [board |-> [b EXCEPT !.piece_moved_index = None],
          ret |-> piece_names[b.piece_moved_index + 1]]

\* Board.get_piece_captured: None when nothing is recorded, else the name,
\* clearing the index.
get_piece_captured(b) ==
    IF b.piece_captured_index = None
    THEN [board |-> b, ret |-> "None"]
    ELSE [board |-> [b EXCEPT !.piece_captured_index = None],
          ret |-> piece_names[b.piece_captured_index + 1]]

\* ------------------------------------------------------------------------
\* class Board: move generation
\* ------------------------------------------------------------------------

\* The boundary tested before a step in a left-shift direction.
LeftEdge_east_at_file_a(direction) ==
    CASE direction = 8 -> RankMask8
      [] direction = 1 -> FileMaskA
      [] direction = 7 -> EdgeNW
      [] direction = 9 -> EdgeNE
LeftEdge(direction) ==
    CASE direction = 8 -> RankMask8
      [] direction = 1 -> FileMaskH
      [] direction = 7 -> EdgeNW
      [] direction = 9 -> EdgeNE

\* The boundary tested before a step in a right-shift direction.
RightEdge_west_as_south_west(direction) ==
    CASE direction = 8 -> RankMask1
      [] direction = 1 -> EdgeSW
      [] direction = 7 -> EdgeSE
      [] direction = 9 -> EdgeSW
RightEdge(direction) ==
    CASE direction = 8 -> RankMask1
      [] direction = 1 -> FileMaskA
      [] direction = 7 -> EdgeSE
      [] direction = 9 -> EdgeSW

\* Board.recc_left_shift, reading self._all_pieces_bb as all_pieces_bb.
\* move_limit_count is None or a count.
RECURSIVE recc_left_shift(_, _, _, _)
recc_left_shift(all_pieces_bb, location_bb, direction, move_limit_count) ==
    IF move_limit_count # None /\ move_limit_count <= 0 THEN {}
    ELSE LET limit == IF move_limit_count # None
                      THEN move_limit_count - 1 ELSE None
         IN  IF location_bb \cap LeftEdge(direction) # {}
                \/ location_bb \cap all_pieces_bb # {}
             THEN {}
             ELSE LET destination_bb == Shl(location_bb, direction)
                  IN  destination_bb \cup
                      recc_left_shift(all_pieces_bb, destination_bb, direction, limit)

\* Board.recc_right_shift
RECURSIVE recc_right_shift(_, _, _, _)
recc_right_shift(all_pieces_bb, location_bb, direction, move_limit_count) ==
    IF move_limit_count # None /\ move_limit_count <= 0 THEN {}
    ELSE LET limit == IF move_limit_count # None
                      THEN move_limit_count - 1 ELSE None
         IN  IF location_bb \cap RightEdge(direction) # {}
                \/ location_bb \cap all_pieces_bb # {}
             THEN {}
             ELSE LET destination_bb == Shr(location_bb, direction)
                  IN  destination_bb \cup
                      recc_right_shift(all_pieces_bb, destination_bb, direction, limit)

\* Board.generate_moves: the union over the directions, a positive one
\* cast by left shifts and a negative one by right shifts of abs(direction).
generate_moves(all_pieces_bb, origin_bb, directions, move_limit) ==
    UNION {IF direction > 0
           THEN recc_left_shift(all_pieces_bb, origin_bb, direction, move_limit)
           ELSE IF direction < 0
           THEN recc_right_shift(all_pieces_bb, origin_bb, 0 - direction, move_limit)
           ELSE {} : direction \in directions}

\* Board.generate_moves_pawn
generate_moves_pawn(current_turn, all_pieces_bb, move_from_bb) ==
    LET direction == IF current_turn = "White" THEN 1 ELSE -1
        start_row == IF current_turn = "White" THEN RankMask2 ELSE RankMask7
        forward_move_limit == IF move_from_bb \cap start_row # {} THEN 2 ELSE 1
        forward == generate_moves(all_pieces_bb, move_from_bb,
                                  {8 * direction}, forward_move_limit)
        valid_moves_bb == forward \ all_pieces_bb
        diagonal_moves == all_pieces_bb \cap
            generate_moves(all_pieces_bb, move_from_bb,
                           {7 * direction, 9 * direction}, 1)
    IN  valid_moves_bb \cup diagonal_moves

\* Board.generate_moves_knight
generate_moves_knight(move_from_bb) ==
    LET north == move_from_bb \cap NorthHalf # {}
        west == move_from_bb \cap WestHalf # {}
        boundary_bb == (IF north THEN NegNorthBoundary ELSE RankMask1And2)
                       \cup (IF west THEN WestBoundary ELSE EastBoundary)
        right_bit_shifts == (IF north THEN 8 * 2 ELSE 0) + (IF west THEN 0 ELSE 2)
        left_bit_shifts == (IF north THEN 0 ELSE 8 * 2) + (IF west THEN 2 ELSE 0)
        knight_bb == Shl(Shr(move_from_bb, right_bit_shifts), left_bit_shifts)
        legs(leg_one, multiplier) ==
            LET leg_two == 3 - leg_one
                multiplier2 == 9 - multiplier
            IN  Shr(Shr(knight_bb, leg_one * multiplier), leg_two * multiplier2)
                \cup Shl(Shr(knight_bb, leg_one * multiplier), leg_two * multiplier2)
                \cup Shr(Shl(knight_bb, leg_one * multiplier), leg_two * multiplier2)
                \cup Shl(Shl(knight_bb, leg_one * multiplier), leg_two * multiplier2)
        moves_bb == UNION {legs(leg_one, multiplier) :
                           leg_one \in {1, 2}, multiplier \in {1, 8}}
    IN  Shr(Shl(moves_bb \ boundary_bb, right_bit_shifts), left_bit_shifts)

\* The if/elif chain of Board.find_valid_moves: the first index 0..5 whose
\* mask of the side to move holds the origin bit, or None.
piece_at_else_king(pieces_to_search, move_from_bb) ==
    IF \E i \in 0..4 : pieces_to_search[i] \cap move_from_bb # {}
    THEN CHOOSE i \in 0..4 :
            /\ pieces_to_search[i] \cap move_from_bb # {}
            /\ \A j \in 0..(i - 1) : pieces_to_search[j] \cap move_from_bb = {}
    ELSE 5
piece_at(pieces_to_search, move_from_bb) ==
    IF \E i \in 0..5 : pieces_to_search[i] \cap move_from_bb # {}
    THEN CHOOSE i \in 0..5 :
            /\ pieces_to_search[i] \cap move_from_bb # {}
            /\ \A j \in 0..(i - 1) : pieces_to_search[j] \cap move_from_bb = {}
    ELSE None

\* A destination set as every branch of find_valid_moves returns it:
\* generated & ~friendly_pieces_bb.
remove_friendly_keeps(generated, friendly_pieces_bb) == generated
remove_friendly(generated, friendly_pieces_bb) == generated \ friendly_pieces_bb

\* Board.find_valid_moves: the moves returned, and the value it leaves in
\* _piece_moved_index, which no branch resets: without a piece of the side
\* to move at the origin it keeps the value of an earlier call.
find_valid_moves(b, move_from_bb) ==
    LET white == b.current_turn = "White"
        pieces_to_search == IF white THEN b.white_pieces_list ELSE b.black_pieces_list
        friendly_pieces_bb == IF white THEN b.all_white_pieces_bb ELSE b.all_black_pieces_bb
        index == piece_at(pieces_to_search, move_from_bb)
        generated ==
            CASE index = 0 ->
                    generate_moves_pawn(b.current_turn, b.all_pieces_bb, move_from_bb)
              [] index = 1 ->
                    generate_moves(b.all_pieces_bb, move_from_bb, {8, -8, 1, -1}, None)
              [] index = 2 ->
                    generate_moves_knight(move_from_bb)
              [] index = 3 ->
                    generate_moves(b.all_pieces_bb, move_from_bb, {7, 9, -7, -9}, None)
              [] index = 4 ->
                    generate_moves(b.all_pieces_bb, move_from_bb,
                                   {8, -8, 1, -1, 7, 9, -7, -9}, None)
              [] index = 5 ->
                    generate_moves(b.all_pieces_bb, move_from_bb,
                                   {8, -8, 1, -1, 7, 9, -7, -9}, 1)
              [] OTHER -> {}
    IN  [ legal_moves |-> IF index = None THEN {}
                          ELSE remove_friendly(generated, friendly_pieces_bb),
          piece_moved_index |-> IF index = None THEN b.piece_moved_index ELSE index ]

\* ------------------------------------------------------------------------
\* class Board: move execution
\* ------------------------------------------------------------------------

\* The capture loop finding no mask that holds the destination bit.
last_match_none(opponents_pieces_list, move_to_bb) == None

\* The last index of the opponent's list whose mask holds the destination
\* bit (the loop of update_bitboards overwrites _piece_captured_index at
\* every match), or None when no mask holds it.
last_match(opponents_pieces_list, move_to_bb) ==
    LET hits == {i \in 0..5 : move_to_bb \cap opponents_pieces_list[i] # {}}
    IN  IF hits = {} THEN None ELSE CHOOSE i \in hits : \A j \in hits : j <= i

\* (bb & ~move_from_bb) | move_to_bb: a mask of the mover after the move.
move_piece_keeps_origin(bb, move_from_bb, move_to_bb) == bb \cup move_to_bb
move_piece(bb, move_from_bb, move_to_bb) == (bb \ move_from_bb) \cup move_to_bb

\* The opponent's occupancy after a capture: &= ~move_to_bb.
clear_opponent_occupancy_skipped(all_opponents_pieces_bb, move_to_bb) ==
    all_opponents_pieces_bb
clear_opponent_occupancy(all_opponents_pieces_bb, move_to_bb) ==
    all_opponents_pieces_bb \ move_to_bb

\* Board.update_bitboards, with _piece_moved_index as find_valid_moves set it.
update_bitboards(b, move_from_bb, move_to_bb) ==
    LET white == b.current_turn = "White"
        moved == b.piece_moved_index
        own_list == IF white THEN b.white_pieces_list ELSE b.black_pieces_list
        own_all == IF white THEN b.all_white_pieces_bb ELSE b.all_black_pieces_bb
        opponents_pieces_list == IF white THEN b.black_pieces_list ELSE b.white_pieces_list
        all_opponents_pieces_bb == IF white THEN b.all_black_pieces_bb ELSE b.all_white_pieces_bb
        own_list2 == [own_list EXCEPT ![moved] = move_piece(@, move_from_bb, move_to_bb)]
        own_all2 == move_piece(own_all, move_from_bb, move_to_bb)
        all2 == move_piece(b.all_pieces_bb, move_from_bb, move_to_bb)
        capture == move_to_bb \cap all_opponents_pieces_bb # {}
        hit == last_match(opponents_pieces_list, move_to_bb)
        opp_list2 == IF capture
                     THEN [i \in 0..5 |->
                             IF move_to_bb \cap opponents_pieces_list[i] # {}
                             THEN opponents_pieces_list[i] \ move_to_bb
                             ELSE opponents_pieces_list[i]]
                     ELSE opponents_pieces_list
        opp_all2 == IF capture /\ hit # None
                    THEN clear_opponent_occupancy(all_opponents_pieces_bb, move_to_bb)
                    ELSE all_opponents_pieces_bb
    IN  [b EXCEPT
            !.white_pieces_list = IF white THEN own_list2 ELSE opp_list2,
            !.black_pieces_list = IF white THEN opp_list2 ELSE own_list2,
            !.all_white_pieces_bb = IF white THEN own_all2 ELSE opp_all2,
            !.all_black_pieces_bb = IF white THEN opp_all2 ELSE own_all2,
            !.all_pieces_bb = all2,
            !.piece_captured_index = IF capture /\ hit # None THEN hit ELSE @]

\* Board.execute_move from the test of _piece_moved_index on, with the
\* bitboards updated before the destination is tested.
validate_move_updates_first(b, found, move_from_bb, move_to_bb) ==
    IF found.piece_moved_index = None
    THEN [board |-> [b EXCEPT !.all_pieces_bb = @ \cup move_from_bb],
          ret |-> "False", path |-> "no_piece"]
    ELSE [board |-> update_bitboards(
                        [b EXCEPT !.piece_moved_index = found.piece_moved_index],
                        move_from_bb, move_to_bb),
          ret |-> IF move_to_bb \cap found.legal_moves = {} THEN "False" ELSE "True",
          path |-> IF move_to_bb \cap found.legal_moves = {}
                   THEN "illegal_move" ELSE "moved"]

\* Board.execute_move from the test of _piece_moved_index on: b is the board
\* with the origin bit removed from _all_pieces_bb, found what
\* find_valid_moves returned and left in _piece_moved_index. Both rejections
\* end with self._all_pieces_bb |= move_from_bb.
validate_move(b, found, move_from_bb, move_to_bb) ==
    IF found.piece_moved_index = None
    THEN [board |-> [b EXCEPT !.all_pieces_bb = @ \cup move_from_bb],
          ret |-> "False", path |-> "no_piece"]
    ELSE IF move_to_bb \cap found.legal_moves = {}
    THEN [board |-> [b EXCEPT !.piece_moved_index = found.piece_moved_index,
                              !.all_pieces_bb = @ \cup move_from_bb],
          ret |-> "False", path |-> "illegal_move"]
    ELSE [board |-> update_bitboards(
                        [b EXCEPT !.piece_moved_index = found.piece_moved_index],
                        move_from_bb, move_to_bb),
          ret |-> "True", path |-> "moved"]

\* Board.execute_move from self._all_pieces_bb &= ~move_from_bb on.
find_and_validate(b, move_from_bb, move_to_bb) ==
    validate_move(b, find_valid_moves(b, move_from_bb), move_from_bb, move_to_bb)

\* Board.execute_move from the two conversions on: from and to are what
\* convert_to_bitboard did with move_from and move_to.
execute_converted(b, from, to) ==
    IF from.kind = "ValueError" \/ to.kind = "ValueError"
    THEN [board |-> b, ret |-> "ValueError", path |-> "raised"]
    ELSE IF from.kind = "None" \/ to.kind = "None"
    THEN [board |-> b, ret |-> "False", path |-> "invalid_label"]
    ELSE find_and_validate([b EXCEPT !.all_pieces_bb = @ \ from.bb], from.bb, to.bb)

\* Board.execute_move: the board after the call, what the call returned
\* ("True", "False", or the name of the exception it raised) and the path
\* taken through the method.
execute_move(b, move_from, move_to) ==
    IF move_from.type # "str" \/ move_to.type # "str"
    THEN [board |-> b, ret |-> "AttributeError", path |-> "raised"]
    ELSE IF Upper(move_from.val) = Upper(move_to.val)
    THEN [board |-> b, ret |-> "False", path |-> "same_square"]
    ELSE execute_converted(b, convert_to_bitboard(move_from),
                           convert_to_bitboard(move_to))

\* ------------------------------------------------------------------------
\* class ChessVar
\* ------------------------------------------------------------------------

\* ChessVar.get_game_state with the two winners exchanged.
get_game_state_swapped(b) ==
    IF \E i \in 0..5 : b.white_pieces_list[i] = {} THEN "WHITE_WON"
    ELSE IF \E i \in 0..5 : b.black_pieces_list[i] = {} THEN "BLACK_WON"
    ELSE "UNFINISHED"

\* ChessVar.get_game_state: White's list is searched first.
get_game_state(b) ==
    IF \E i \in 0..5 : b.white_pieces_list[i] = {} THEN "BLACK_WON"
    ELSE IF \E i \in 0..5 : b.black_pieces_list[i] = {} THEN "WHITE_WON"
    ELSE "UNFINISHED"

\* str.lower() on the letters of the back row.
LowerPiece(c) ==
    CASE c = "R" -> "r" [] c = "N" -> "n" [] c = "B" -> "b"
      [] c = "Q" -> "q" [] c = "K" -> "k" [] OTHER -> c

\* ChessVar.setup_display: the rows of _board_display, row 0 first.
BackRow == <<"R", "N", "B", "Q", "K", "B", "N", "R">>
setup_display ==
    [rank \in 0..7 |->
        [file \in 0..7 |->
            CASE rank = 0 -> BackRow[file + 1]
              [] rank = 1 -> "P"
              [] rank = 6 -> "p"
              [] rank = 7 -> LowerPiece(BackRow[file + 1])
              [] OTHER -> "."]]

\* ChessVar.update_display leaving the piece on the cell it moved from.
update_display_keeps_origin(display, b, move_from, move_to) ==
    LET from_file == Ord(UpperChar(move_from.val[1])) - Ord("A")
        from_rank == IntOf(move_from.val[2]) - 1
        to_file == Ord(UpperChar(move_to.val[1])) - Ord("A")
        to_rank == IntOf(move_to.val[2]) - 1
        piece == display[from_rank][from_file]
        display2 == [display EXCEPT ![to_rank][to_file] = piece]
        moved == get_piece_moved(b)
        captured == get_piece_captured(moved.board)
    IN  [ board_display |-> display2,
          board |-> captured.board,
          previous_move |-> <<b.current_turn, moved.ret, move_from, move_to, captured.ret>> ]

\* ChessVar.update_display, called with the labels of an accepted move:
\* moves the cell, then reads the turn, the moved and the captured piece
\* from the board (which clears both indices) into _previous_move.
update_display(display, b, move_from, move_to) ==
    LET from_file == Ord(UpperChar(move_from.val[1])) - Ord("A")
        from_rank == IntOf(move_from.val[2]) - 1
        to_file == Ord(UpperChar(move_to.val[1])) - Ord("A")
        to_rank == IntOf(move_to.val[2]) - 1
        piece == display[from_rank][from_file]
        display1 == [display EXCEPT ![from_rank][from_file] = "."]
        display2 == [display1 EXCEPT ![to_rank][to_file] = piece]
        moved == get_piece_moved(b)
        captured == get_piece_captured(moved.board)
    IN  [ board_display |-> display2,
          board |-> captured.board,
          previous_move |-> <<b.current_turn, moved.ret, move_from, move_to, captured.ret>> ]

\* The fields of a ChessVar.
ChessVarState(b, state, previous, display) ==
    [board |-> b, game_state |-> state, previous_move |-> previous,
     board_display |-> display]

\* The guard that opens make_move: get_game_state() != "UNFINISHED".
game_is_over_never(g) == FALSE
game_is_over(g) == get_game_state(g.board) # "UNFINISHED"

\* ChessVar.make_move after an accepted execute_move: executed is what
\* execute_move returned, shown what update_display did after it.
finish_move(executed, shown) ==
    [game |-> ChessVarState(set_next_turn(shown.board),
                            get_game_state(executed.board),
                            shown.previous_move, shown.board_display),
     ret |-> "True", path |-> executed.path]

\* ChessVar.make_move after execute_move, which returned executed.
after_execute(g, executed, move_from, move_to) ==
    IF executed.ret # "True"
    THEN [game |-> [g EXCEPT !.board = executed.board],
          ret |-> executed.ret, path |-> executed.path]
    ELSE finish_move(executed,
                     update_display(g.board_display, executed.board, move_from, move_to))

\* ChessVar.make_move on the game g: the game after the call, what the call
\* returned and the path taken.
make_move(g, move_from, move_to) ==
    IF game_is_over(g)
    THEN [game |-> g, ret |-> "False", path |-> "game_over"]
    ELSE after_execute(g, execute_move(g.board, move_from, move_to), move_from, move_to)

\* ------------------------------------------------------------------------
\* The state machine
\* ------------------------------------------------------------------------

VARIABLES
    board,           \* the Board: its fields as a record
    game_state,      \* ChessVar._game_state
    previous_move,   \* ChessVar._previous_move, <<>> for None
    board_display,   \* ChessVar._board_display
    calls,           \* the number of execute_move or make_move calls so far
    last             \* the last call made (see Call)

vars == <<board, game_state, previous_move, board_display, calls, last>>

\* The square labels the calls are made with: the squares of a queen
\* sortie (E2 E3, D1 G4), of the replies D7 D6, C8 G4 and D8 D7, the pawn
\* D2 beside E3, the two kings (E1, E8), a lower-case spelling and a label
\* off the board.
Labels ==
    {Str(<<f, r>>) : f \in {"D"}, r \in {"1", "2", "6", "7", "8"}}
    \cup {Str(<<"E", "2">>), Str(<<"E", "3">>), Str(<<"G", "4">>),
          Str(<<"E", "1">>), Str(<<"E", "8">>),
          Str(<<"C", "8">>), Str(<<"e", "2">>), Str(<<"E", "9">>)}

\* What `last` keeps of a call: the method, its result and path, the squares
\* of the move when it was accepted (empty bitboards otherwise) and the
\* Board as it was when the call was made.
Call(op, ret, path, move_from_bb, move_to_bb, before) ==
    [op |-> op, ret |-> ret, path |-> path,
     move_from_bb |-> move_from_bb, move_to_bb |-> move_to_bb, before |-> before]

\* The squares of an accepted move, for `last`.
MovedFrom(r, move_from) ==
    IF r.ret = "True" THEN convert_to_bitboard(move_from).bb ELSE {}
MovedTo(r, move_to) ==
    IF r.ret = "True" THEN convert_to_bitboard(move_to).bb ELSE {}

Init ==
    /\ board = setup_new_board
    /\ game_state = "UNFINISHED"
    /\ previous_move = <<>>
    /\ board_display = setup_display
    /\ calls = 0
    /\ last = Call("init", "None", "none", {}, {}, setup_new_board)

\* The state after a call of Board.execute_move that returned r.
Executed(r, move_from, move_to) ==
    /\ board' = r.board
    /\ last' = Call("execute_move", r.ret, r.path,
                    MovedFrom(r, move_from), MovedTo(r, move_to), board)

\* A call of Board.execute_move(move_from, move_to).
ExecuteMove(move_from, move_to) ==
    /\ calls < MaxCalls
    /\ Executed(execute_move(board, move_from, move_to), move_from, move_to)
    /\ calls' = calls + 1
    /\ UNCHANGED <<game_state, previous_move, board_display>>

\* A call of Board.set_next_turn().
SetNextTurn ==
    /\ board' = set_next_turn(board)
    /\ last' = Call("set_next_turn", "None", "none", {}, {}, board)
    /\ UNCHANGED <<game_state, previous_move, board_display, calls>>

\* The state after a call of one of the two getters that returned r.
Got(op, r) ==
    /\ board' = r.board
    /\ last' = Call(op, r.ret, "none", {}, {}, board)

\* A call of Board.get_piece_moved().
GetPieceMoved ==
    /\ Got("get_piece_moved", get_piece_moved(board))
    /\ UNCHANGED <<game_state, previous_move, board_display, calls>>

\* A call of Board.get_piece_captured().
GetPieceCaptured ==
    /\ Got("get_piece_captured", get_piece_captured(board))
    /\ UNCHANGED <<game_state, previous_move, board_display, calls>>

\* The state after a call of ChessVar.make_move that returned r.
Made(r, move_from, move_to) ==
    /\ board' = r.game.board
    /\ game_state' = r.game.game_state
    /\ previous_move' = r.game.previous_move
    /\ board_display' = r.game.board_display
    /\ last' = Call("make_move", r.ret, r.path,
                    MovedFrom(r, move_from), MovedTo(r, move_to), board)

\* A call of ChessVar.make_move(move_from, move_to).
MakeMove(move_from, move_to) ==
    /\ calls < MaxMoves
    /\ Made(make_move(ChessVarState(board, game_state, previous_move, board_display),
                      move_from, move_to), move_from, move_to)
    /\ calls' = calls + 1

\* A Board used directly through its public methods.
Next ==
    \/ \E move_from \in Labels, move_to \in Labels : ExecuteMove(move_from, move_to)
    \/ SetNextTurn
    \/ GetPieceMoved
    \/ GetPieceCaptured

Spec == Init /\ [][Next]_vars

\* A game played through ChessVar.make_move, which owns its Board.
NextGame == \E move_from \in Labels, move_to \in Labels : MakeMove(move_from, move_to)

SpecGame == Init /\ [][NextGame]_vars

\* ------------------------------------------------------------------------
\* A Board used directly, or a game
\* ------------------------------------------------------------------------

\* A program that either uses a Board through its public methods or plays
\* a game through ChessVar.make_move, which owns its Board: the first call
\* decides which, and the calls of one are never mixed with the other's.
NextEither ==
    \/ last.op # "make_move" /\ Next
    \/ last.op \in {"init", "make_move"} /\ NextGame

SpecEither == Init /\ [][NextEither]_vars

\* ------------------------------------------------------------------------
\* The opening move of a game
\* ------------------------------------------------------------------------

\* The upper-case labels of the 64 squares.
SquareLabels == {Str(<<UpperRow[f], DigitRow[r + 1]>>) : f \in 1..8, r \in 1..8}

\* The labels a call is made with: any two squares for the first call of a
\* game, the labels of Labels for the calls that follow.
LabelsAt(n) == IF n = 0 THEN SquareLabels ELSE Labels

\* A game whose first make_move call is made with any pair of squares.
NextOpening ==
    /\ calls < 1 + MaxReplies
    /\ \E move_from \in LabelsAt(calls), move_to \in LabelsAt(calls) :
          MakeMove(move_from, move_to)

SpecOpening == Init /\ [][NextOpening]_vars

\* ------------------------------------------------------------------------
\* Move generation on chosen positions
\* ------------------------------------------------------------------------

\* Pieces standing around the piece whose moves are generated: pawns of the
\* side to move (at most seven, on ranks 2..7), pawns of the opponent (at
\* most eight, on ranks 2..7), a knight of the side to move and rooks of the
\* opponent. The first is the empty board, the next two have the pawn rows
\* and corner pieces of the starting position seen from either side, the
\* others are scattered.
Arrangements ==
    { [own_pawns |-> {}, opp_pawns |-> {}, own_knights |-> {}, opp_rooks |-> {}],
      [own_pawns |-> 8..14, opp_pawns |-> 48..55,
       own_knights |-> {1}, opp_rooks |-> {56, 63}],
      [own_pawns |-> 49..55, opp_pawns |-> 8..15,
       own_knights |-> {62}, opp_rooks |-> {0, 7}],
      [own_pawns |-> {22, 50, 52}, opp_pawns |-> {30, 32, 45},
       own_knights |-> {}, opp_rooks |-> {}],
      [own_pawns |-> {11, 26, 28, 36, 41}, opp_pawns |-> {10, 13, 44, 47, 48, 51},
       own_knights |-> {59}, opp_rooks |-> {23}],
      [own_pawns |-> {8, 11, 19, 23, 30, 44, 49},
       opp_pawns |-> {9, 10, 20, 21, 22, 29, 42, 52},
       own_knights |-> {53}, opp_rooks |-> {14, 16}],
      [own_pawns |-> {10, 43}, opp_pawns |-> {17, 19, 26, 27, 29, 32, 52},
       own_knights |-> {}, opp_rooks |-> {34, 41}],
      [own_pawns |-> {10, 16, 31, 34, 40, 52, 54}, opp_pawns |-> {35, 44},
       own_knights |-> {39}, opp_rooks |-> {}],
      [own_pawns |-> {17, 20, 39, 41}, opp_pawns |-> {28, 40, 50, 55},
       own_knights |-> {24}, opp_rooks |-> {51}],
      [own_pawns |-> {10, 15, 30, 45, 46, 51}, opp_pawns |-> {11, 27, 35, 39, 40},
       own_knights |-> {}, opp_rooks |-> {25, 55}] }

\* The six masks of a side holding the squares `first` of kind `kind` and
\* the squares `others` of kind `other_kind`.
pieces_list_of(kind, first, other_kind, others, third_kind, thirds) ==
    [i \in 0..5 |-> (IF i = kind THEN first ELSE {})
                     \cup (IF i = other_kind THEN others ELSE {})
                     \cup (IF i = third_kind THEN thirds ELSE {})]

\* A Board whose side to move is `turn` and has a piece of kind `kind` on
\* the square `origin`, among the pieces of arrangement `a` (none of them
\* on the origin); the three occupancy masks are the unions of the piece
\* masks, as update_bitboards keeps them, and no move has been made.
board_with(turn, kind, origin, a) ==
    LET own == pieces_list_of(kind, {origin}, 0, a.own_pawns \ {origin},
                              2, a.own_knights \ {origin})
        opp == pieces_list_of(0, a.opp_pawns \ {origin}, 1, a.opp_rooks \ {origin},
                              1, {})
        all_own == {origin} \cup a.own_pawns \cup a.own_knights
        all_opp == (a.opp_pawns \cup a.opp_rooks) \ {origin}
    IN  [ current_turn |-> turn,
          piece_moved_index |-> None,
          piece_captured_index |-> None,
          white_pieces_list |-> IF turn = "White" THEN own ELSE opp,
          black_pieces_list |-> IF turn = "White" THEN opp ELSE own,
          all_white_pieces_bb |-> IF turn = "White" THEN all_own ELSE all_opp,
          all_black_pieces_bb |-> IF turn = "White" THEN all_opp ELSE all_own,
          all_pieces_bb |-> all_own \cup all_opp ]

\* The squares a pawn of the side `turn` can stand on: it starts on its
\* second rank and never moves backward.
pawn_squares(turn) == IF turn = "White" THEN 8..63 ELSE 0..55

\* What `last` keeps of the input drawn and of the call made with it.
Drawn(move_from_bb, before) ==
    [op |-> "board_with", move_from_bb |-> move_from_bb, legal_moves |-> {},
     before |-> before]
Found(found, move_from_bb, before) ==
    [op |-> "find_valid_moves", move_from_bb |-> move_from_bb,
     legal_moves |-> found.legal_moves, before |-> before]

\* The inputs: a board and the origin square of one of its pieces of the
\* side to move.
InitMoves ==
    /\ \E turn \in {"White", "Black"}, kind \in 0..5, origin \in 0..63,
          a \in Arrangements :
          /\ kind = 0 => origin \in pawn_squares(turn)
          /\ board = board_with(turn, kind, origin, a)
          /\ last = Drawn({origin}, board_with(turn, kind, origin, a))
    /\ game_state = "UNFINISHED"
    /\ previous_move = <<>>
    /\ board_display = setup_display
    /\ calls = 0

\* Board.execute_move from the removal of the origin bit to the return of
\* find_valid_moves, on the board b.
origin_lifted(b, move_from_bb) == [b EXCEPT !.all_pieces_bb = @ \ move_from_bb]
legal_moves_from(b, move_from_bb) ==
    find_valid_moves(origin_lifted(b, move_from_bb), move_from_bb)

\* The state after that call, which returned found.legal_moves.
FoundMoves(found, move_from_bb) ==
    /\ board' = [origin_lifted(board, move_from_bb) EXCEPT
                    !.piece_moved_index = found.piece_moved_index]
    /\ last' = Found(found, move_from_bb, board)

\* A call of find_valid_moves, made as execute_move makes it, with the
\* origin drawn.
FindValidMoves ==
    /\ last.op = "board_with"
    /\ FoundMoves(legal_moves_from(board, last.move_from_bb), last.move_from_bb)
    /\ calls' = calls + 1
    /\ UNCHANGED <<game_state, previous_move, board_display>>

NextMoves == FindValidMoves

SpecMoves == InitMoves /\ [][NextMoves]_vars

\* ------------------------------------------------------------------------
\* Conversion of chosen locations
\* ------------------------------------------------------------------------

\* The characters of the model: the letters A..I and a..i (I and i lie
\* beyond the last file) and the decimal digits (0 and 9 lie beyond the
\* ranks; as a first character a digit lies before the first file).
Chars ==
    {UpperRow[i] : i \in 1..Len(UpperRow)} \cup {LowerRow[i] : i \in 1..Len(LowerRow)}
    \cup {DigitRow[i] : i \in 1..Len(DigitRow)}

\* The values passed as location: a value that is no str, the empty string,
\* every string of one or two characters and some of three.
Locations ==
    {NotAStr, Str(<<>>)}
    \cup {Str(<<c>>) : c \in Chars}
    \cup {Str(<<c, d>>) : c \in Chars, d \in Chars}
    \cup {Str(<<c, d, "2">>) : c \in {"E", "e"}, d \in {"2", "9", "x"}}

\* What `last` keeps of the location drawn and of the call made with it.
Located(location) ==
    [op |-> "location", location |-> location, result |-> ReturnedNone]
Converted(location, result) ==
    [op |-> "convert_to_bitboard", location |-> location, result |-> result]

\* The input: a location; the Board is a new one.
InitLabels ==
    /\ \E location \in Locations : last = Located(location)
    /\ board = setup_new_board
    /\ game_state = "UNFINISHED"
    /\ previous_move = <<>>
    /\ board_display = setup_display
    /\ calls = 0

\* A call of Board.convert_to_bitboard(location), a static method: it
\* changes no field.
ConvertToBitboard ==
    /\ last.op = "location"
    /\ last' = Converted(last.location, convert_to_bitboard(last.location))
    /\ calls' = calls + 1
    /\ UNCHANGED <<board, game_state, previous_move, board_display>>

NextLabels == ConvertToBitboard

SpecLabels == InitLabels /\ [][NextLabels]_vars

\* ------------------------------------------------------------------------
\* Vocabulary of the properties
\* ------------------------------------------------------------------------

\* The board position: the twelve piece masks, both side occupancy masks,
\* the all-pieces occupancy mask and the turn.
Position(b) ==
    <<b.white_pieces_list, b.black_pieces_list, b.all_white_pieces_bb,
      b.all_black_pieces_bb, b.all_pieces_bb, b.current_turn>>

\* The squares a side's six masks hold, and the masks of the side to move
\* and of its opponent on the board b.
UnionOf(pieces_list) == UNION {pieces_list[i] : i \in 0..5}
OwnList(b) == IF b.current_turn = "White" THEN b.white_pieces_list ELSE b.black_pieces_list
OppList(b) == IF b.current_turn = "White" THEN b.black_pieces_list ELSE b.white_pieces_list

\* The last call was an execute_move that was accepted / rejected.
Accepted == last.op = "execute_move" /\ last.ret = "True"
Rejected == last.op = "execute_move" /\ last.ret = "False"

\* The square (bit index) of a one-bit bitboard, its file and its rank.
SquareOf(bb) == CHOOSE sq \in bb : TRUE
FileOf(sq) == sq % 8
RankOf(sq) == sq \div 8

\* The accepted move of `last` was made by a pawn; it went one file aside
\* and one rank forward; it stayed on its file.
PawnMoved == last.move_from_bb \subseteq OwnList(last.before)[0]
Forward(b) == IF b.current_turn = "White" THEN 1 ELSE -1
DiagonalStep ==
    LET from == SquareOf(last.move_from_bb)
        to == SquareOf(last.move_to_bb)
    IN  /\ RankOf(to) - RankOf(from) = Forward(last.before)
        /\ FileOf(to) - FileOf(from) \in {-1, 1}
StraightStep == FileOf(SquareOf(last.move_to_bb)) = FileOf(SquareOf(last.move_from_bb))

\* The destination of the accepted move of `last` held an opposing piece /
\* any piece when the call was made.
OnOpponent == last.move_to_bb \cap UnionOf(OppList(last.before)) # {}
OnPiece ==
    last.move_to_bb \cap (UnionOf(last.before.white_pieces_list)
                          \cup UnionOf(last.before.black_pieces_list)) # {}

\* The squares that hold a piece on the board b, by its piece masks.
Occupied(b) == UnionOf(b.white_pieces_list) \cup UnionOf(b.black_pieces_list)

\* The all-pieces and side occupancy masks of b agree with its piece masks.
Consistent(b) ==
    /\ b.all_white_pieces_bb = UnionOf(b.white_pieces_list)
    /\ b.all_black_pieces_bb = UnionOf(b.black_pieces_list)
    /\ b.all_pieces_bb = Occupied(b)

\* The eight directions as <<files, ranks>> moved in one step.
Straight == {<<0, 1>>, <<0, -1>>, <<1, 0>>, <<-1, 0>>}
Diagonal == {<<1, 1>>, <<-1, 1>>, <<1, -1>>, <<-1, -1>>}

\* The square k steps from sq in direction d, and whether it is on the board.
StepOnBoard(sq, d, k) ==
    /\ FileOf(sq) + k * d[1] \in 0..7
    /\ RankOf(sq) + k * d[2] \in 0..7
StepFrom(sq, d, k) == 8 * (RankOf(sq) + k * d[2]) + (FileOf(sq) + k * d[1])

\* The squares of the ray from sq in direction d, at most `reach` steps
\* long: every square on the board with no occupied square before it.
RaySquares(b, sq, d, reach) ==
    {StepFrom(sq, d, k) :
        k \in {n \in 1..reach :
                  /\ StepOnBoard(sq, d, n)
                  /\ \A j \in 1..(n - 1) : StepFrom(sq, d, j) \notin Occupied(b)}}

\* The destinations of a piece of the side to move that slides from sq
\* along the directions dirs: its rays, less the squares of its own side.
SlideFrom(b, sq, dirs, reach) ==
    UNION {RaySquares(b, sq, d, reach) : d \in dirs} \ UnionOf(OwnList(b))

\* The eight jumps of a knight as <<files, ranks>>, and the squares on the
\* board a knight on sq jumps to.
Jumps ==
    {<<1, 2>>, <<2, 1>>, <<2, -1>>, <<1, -2>>,
     <<-1, -2>>, <<-2, -1>>, <<-2, 1>>, <<-1, 2>>}
KnightJumps(sq) == {StepFrom(sq, d, 1) : d \in {j \in Jumps : StepOnBoard(sq, j, 1)}}

\* The rank (0..7) a pawn of the side to move on b starts on, and the
\* destinations of a pawn of that side on sq: one step forward onto an
\* empty square, two from the starting rank over an empty square onto an
\* empty square, one step diagonally forward onto an opposing piece.
StartRank(b) == IF b.current_turn = "White" THEN 1 ELSE 6
PawnAhead(b, sq, k) ==
    IF StepOnBoard(sq, <<0, Forward(b)>>, k) /\ (k = 2 => RankOf(sq) = StartRank(b))
          /\ \A j \in 1..k : StepFrom(sq, <<0, Forward(b)>>, j) \notin Occupied(b)
    THEN {StepFrom(sq, <<0, Forward(b)>>, k)} ELSE {}
PawnTakes(b, sq) ==
    {StepFrom(sq, d, 1) :
        d \in {c \in {<<-1, Forward(b)>>, <<1, Forward(b)>>} :
                  /\ StepOnBoard(sq, c, 1)
                  /\ StepFrom(sq, c, 1) \in UnionOf(OppList(b))}}
PawnMoves(b, sq) == PawnAhead(b, sq, 1) \cup PawnAhead(b, sq, 2) \cup PawnTakes(b, sq)

\* The bits of a Python integer that are squares of the board.
OnBoard(bb) == bb \cap (0..63)

\* find_valid_moves has just been called on a consistent board for a piece
\* of kind `kind` of the side to move.
FoundFor(kind) ==
    /\ last.op = "find_valid_moves"
    /\ Consistent(last.before)
    /\ last.move_from_bb \subseteq OwnList(last.before)[kind]

\* The file letters and rank digits of the board, and the valid square
\* labels: a string of a file letter in either case and a rank digit.
Files == <<"A", "B", "C", "D", "E", "F", "G", "H">>
Ranks == <<"1", "2", "3", "4", "5", "6", "7", "8">>
ValidLabel(location) ==
    /\ location.type = "str"
    /\ Len(location.val) = 2
    /\ \E f \in 1..8 : location.val[1] \in {Files[f], LowerRow[f]}
    /\ \E r \in 1..8 : location.val[2] = Ranks[r]

\* The square a valid label names, and the upper-case label of a square.
SquareNamed(location) ==
    LET f == CHOOSE f \in 1..8 : location.val[1] \in {Files[f], LowerRow[f]}
        r == CHOOSE r \in 1..8 : location.val[2] = Ranks[r]
    IN  8 * (r - 1) + (f - 1)
LabelOf(sq) == Str(<<Files[FileOf(sq) + 1], Ranks[RankOf(sq) + 1]>>)

\* The 20 opening moves of chess as <<origin, destination>> squares: each
\* pawn of the second rank one or two squares forward, each knight to the
\* two squares of the third rank it jumps to.
OpeningMoves ==
    {<<8 + f, 16 + f>> : f \in 0..7} \cup {<<8 + f, 24 + f>> : f \in 0..7}
    \cup {<<1, 16>>, <<1, 18>>, <<6, 21>>, <<6, 23>>}

\* The game as make_move receives it in the current state.
Game == ChessVarState(board, game_state, previous_move, board_display)

\* The twelve piece masks and the turn of the board b.
MasksAndTurn(b) == <<b.white_pieces_list, b.black_pieces_list, b.current_turn>>

\* The piece masks, the two side occupancy masks and the turn of b.
MasksSidesAndTurn(b) ==
    <<b.white_pieces_list, b.black_pieces_list, b.all_white_pieces_bb,
      b.all_black_pieces_bb, b.current_turn>>

\* The number of pieces a list of six masks holds, kind by kind.
RECURSIVE PiecesUpTo(_, _)
PiecesUpTo(pieces_list, kind) ==
    IF kind < 0 THEN 0
    ELSE Cardinality(pieces_list[kind]) + PiecesUpTo(pieces_list, kind - 1)
PieceCount(pieces_list) == PiecesUpTo(pieces_list, 5)

\* The masks and the occupancy mask of the side that was to move on the
\* board `before`, and of its opponent, as they are on the board b.
MoverList(b, before) ==
    IF before.current_turn = "White" THEN b.white_pieces_list ELSE b.black_pieces_list
OtherList(b, before) ==
    IF before.current_turn = "White" THEN b.black_pieces_list ELSE b.white_pieces_list
MoverAll(b, before) ==
    IF before.current_turn = "White" THEN b.all_white_pieces_bb ELSE b.all_black_pieces_bb
OtherAll(b, before) ==
    IF before.current_turn = "White" THEN b.all_black_pieces_bb ELSE b.all_white_pieces_bb

\* The letters of the six kinds in upper and in lower case, by index.
KindUpper == <<"P", "R", "N", "B", "Q", "K">>
KindLower == <<"p", "r", "n", "b", "q", "k">>

\* What a display cell shows for the square sq if the pieces of Board's
\* White masks are written with the letters `white` and those of its Black
\* masks with the letters `black`: the letters of every mask that holds the
\* square, or '.' when none does.
CellsFor(b, sq, white, black) ==
    LET letters == {white[kind + 1] : kind \in {k \in 0..5 : sq \in b.white_pieces_list[k]}}
                   \cup {black[kind + 1] : kind \in {k \in 0..5 : sq \in b.black_pieces_list[k]}}
    IN  IF letters = {} THEN {"."} ELSE letters

\* The display shows the board b square for square with those letters.
DisplayShows(display, b, white, black) ==
    \A sq \in 0..63 : CellsFor(b, sq, white, black) = {display[RankOf(sq)][FileOf(sq)]}

\* ------------------------------------------------------------------------
\* Properties
\* ------------------------------------------------------------------------

\* C1: a rejected Board.execute_move call leaves the board position (the
\* twelve piece masks, both side occupancy masks, the all-pieces occupancy
\* mask and the turn) as it was before the call.
C1_RejectedLeavesPosition == Rejected => Position(board) = Position(last.before)

\* C2: after every completed Board.execute_move call the all-pieces
\* occupancy mask is the union of the White and the Black occupancy masks.
C2_AllPiecesIsUnion ==
    last.op = "execute_move" =>
        board.all_pieces_bb = board.all_white_pieces_bb \cup board.all_black_pieces_bb

\* C3: for each side the six piece-kind masks are pairwise disjoint, and
\* the White and the Black occupancy masks have no square in common.
C3_MasksDisjoint ==
    /\ \A i \in 0..5, j \in 0..5 :
          i # j => /\ board.white_pieces_list[i] \cap board.white_pieces_list[j] = {}
                   /\ board.black_pieces_list[i] \cap board.black_pieces_list[j] = {}
    /\ board.all_white_pieces_bb \cap board.all_black_pieces_bb = {}

\* C3 witness: White has just captured a piece.
C3_Witness == Accepted /\ OnOpponent /\ last.before.current_turn = "White"

\* C4: each side's occupancy mask is the union of that side's six
\* piece-kind masks.
C4_OccupancyIsUnion ==
    /\ board.all_white_pieces_bb = UnionOf(board.white_pieces_list)
    /\ board.all_black_pieces_bb = UnionOf(board.black_pieces_list)

\* C4 witness: Black has just captured a piece.
C4_Witness == Accepted /\ OnOpponent /\ last.before.current_turn = "Black"

\* C5: an accepted pawn move to a forward-diagonal square lands on a square
\* that held an opposing piece, and an accepted straight pawn move lands on
\* a square that held no piece.
C5_PawnCaptureRule ==
    (Accepted /\ PawnMoved) =>
        /\ DiagonalStep => OnOpponent
        /\ StraightStep => ~OnPiece

\* C6: an accepted execute_move moves the origin bit to the destination bit
\* in the mask of the moved kind of the side to move; when the destination
\* held an opposing piece, exactly the opposing mask that held the bit loses
\* it and that kind is recorded as captured; every other piece mask of both
\* sides is unchanged.
C6_AcceptedMoveFrame ==
    Accepted =>
        LET own == OwnList(last.before)
            opp == OppList(last.before)
            own_after == IF last.before.current_turn = "White"
                         THEN board.white_pieces_list ELSE board.black_pieces_list
            opp_after == IF last.before.current_turn = "White"
                         THEN board.black_pieces_list ELSE board.white_pieces_list
            from == last.move_from_bb
            to == last.move_to_bb
        IN  /\ \E kind \in 0..5 :
                  /\ from \subseteq own[kind]
                  /\ to \cap own[kind] = {}
                  /\ own_after[kind] = (own[kind] \ from) \cup to
                  /\ \A other \in (0..5) \ {kind} : own_after[other] = own[other]
            /\ IF OnOpponent
               THEN \E kind \in 0..5 :
                       /\ to \subseteq opp[kind]
                       /\ opp_after[kind] = opp[kind] \ to
                       /\ board.piece_captured_index = kind
                       /\ \A other \in (0..5) \ {kind} : opp_after[other] = opp[other]
               ELSE opp_after = opp

\* C6 witness: an accepted move has just taken an opposing pawn.
C6_Witness == Accepted /\ last.move_to_bb \subseteq OppList(last.before)[0]

\* C7: after an accepted execute_move whose destination held no opposing
\* piece, get_piece_captured returns None and get_piece_moved returns the
\* kind of the piece just moved, whatever was or was not read before.
C7_ResultIsFresh ==
    (Accepted /\ ~OnOpponent) =>
        /\ get_piece_captured(board).ret = "None"
        /\ \E kind \in 0..5 :
              /\ last.move_from_bb \subseteq OwnList(last.before)[kind]
              /\ get_piece_moved(board).ret = piece_names[kind + 1]

\* C8: once get_game_state reports a winner, a make_move call returns False
\* and changes nothing on the board, and the game state stays a win.
C8_NoMoveAfterWin ==
    (last.op = "make_move" /\ get_game_state(last.before) # "UNFINISHED") =>
        /\ last.ret = "False"
        /\ Position(board) = Position(last.before)
        /\ get_game_state(board) = get_game_state(last.before)

\* C8 witness: make_move has just been called after White had won.
C8_Witness ==
    /\ last.op = "make_move"
    /\ get_game_state(last.before) = "WHITE_WON"
    /\ last.ret = "False"

\* C9: get_game_state is WHITE_WON exactly when a Black piece-kind mask is
\* empty, BLACK_WON exactly when a White one is, UNFINISHED otherwise, and
\* the state kept by an accepted make_move is the one of the board it left.
C9_WinnerByExtinction ==
    LET state == get_game_state(board)
        black_lost == \E i \in 0..5 : board.black_pieces_list[i] = {}
        white_lost == \E i \in 0..5 : board.white_pieces_list[i] = {}
    IN  /\ (state = "WHITE_WON") = black_lost
        /\ (state = "BLACK_WON") = white_lost
        /\ (state = "UNFINISHED") = (~black_lost /\ ~white_lost)
        /\ (last.op = "make_move" /\ last.ret = "True") => game_state = state

\* C9 witness: an accepted capture has just emptied a Black kind mask while
\* Black still has pieces of other kinds, and the state reads WHITE_WON.
C9_Witness ==
    /\ last.op = "make_move" /\ last.ret = "True" /\ OnOpponent
    /\ get_game_state(last.before) = "UNFINISHED"
    /\ get_game_state(board) = "WHITE_WON"
    /\ game_state = "WHITE_WON"
    /\ board.all_black_pieces_bb # {}

\* C10: execute_move never changes the turn; the turn starts as White, is
\* toggled by a make_move call that returns True and kept by one that does
\* not, so the side to move is never the side that made the previous
\* accepted move.
C10_TurnAlternates ==
    /\ \A move_from \in Labels, move_to \in Labels :
          execute_move(board, move_from, move_to).board.current_turn = board.current_turn
    /\ last.op = "init" => board.current_turn = "White"
    /\ (last.op = "make_move" /\ last.ret = "True") =>
          board.current_turn # last.before.current_turn
    /\ (last.op = "make_move" /\ last.ret # "True") =>
          board.current_turn = last.before.current_turn
    /\ IF previous_move = <<>> THEN board.current_turn = "White"
       ELSE previous_move[1] # board.current_turn

\* C10 witness: Black has just made an accepted move, after White's.
C10_Witness ==
    /\ last.op = "make_move" /\ last.ret = "True"
    /\ last.before.current_turn = "Black"
    /\ board.current_turn = "White"

\* C11: execute_move is rejected whenever the origin square holds no piece
\* of the side to move (an empty square or one of the opponent's): every
\* call that was accepted left from a square that held a piece of the side
\* to move when the call was made, a piece that is now on the destination.
C11_ForeignOriginRejected ==
    Accepted =>
        /\ last.move_from_bb # {}
        /\ last.move_from_bb \subseteq UnionOf(OwnList(last.before))
        /\ last.move_from_bb \cap UnionOf(OppList(last.before)) = {}
        /\ last.move_to_bb \subseteq UnionOf(OwnList(board))

\* C11 witness: a call has just been rejected because find_valid_moves
\* found no piece of the side to move at the origin, which held a piece of
\* the opponent (Black's D7, with White to move).
C11_Witness ==
    /\ Rejected /\ last.path = "no_piece"
    /\ last.before.current_turn = "White"
    /\ \E move_to \in Labels :
          LET r == execute_move(last.before, Str(<<"D", "7">>), move_to)
          IN  r.path = "no_piece" /\ r.board = board

\* C12: on a board with consistent occupancy the destinations found for a
\* Rook (N, S, E, W), a Bishop (the four diagonals) or a Queen (all eight)
\* are exactly the squares of its rays, each running to the board edge or
\* up to and including the first occupied square, less the squares of the
\* mover's own side; a Rook alone on D4 has exactly 14 destinations.
C12_SliderRays ==
    LET b == last.before
        sq == SquareOf(last.move_from_bb)
    IN  /\ FoundFor(1) => last.legal_moves = SlideFrom(b, sq, Straight, 7)
        /\ FoundFor(3) => last.legal_moves = SlideFrom(b, sq, Diagonal, 7)
        /\ FoundFor(4) => last.legal_moves = SlideFrom(b, sq, Straight \cup Diagonal, 7)
        /\ (FoundFor(1) /\ sq = 27 /\ Occupied(b) = {27})
               => Cardinality(last.legal_moves) = 14

\* C12 witness: the moves of a Queen have been found with a ray that ends
\* on an opposing piece short of the board edge and a ray cut by a piece
\* of her own side.
C12_Witness ==
    /\ FoundFor(4)
    /\ \E d \in Straight \cup Diagonal, k \in 1..6 :
          /\ StepOnBoard(SquareOf(last.move_from_bb), d, k + 1)
          /\ StepFrom(SquareOf(last.move_from_bb), d, k) \in last.legal_moves
          /\ StepFrom(SquareOf(last.move_from_bb), d, k)
                \in UnionOf(OppList(last.before))
    /\ \E d \in Straight \cup Diagonal, k \in 2..7 :
          /\ StepOnBoard(SquareOf(last.move_from_bb), d, k)
          /\ StepFrom(SquareOf(last.move_from_bb), d, k - 1) \in last.legal_moves
          /\ StepFrom(SquareOf(last.move_from_bb), d, k)
                \in UnionOf(OwnList(last.before))

\* C13: for each origin square the board squares (bits 0..63) of the result
\* of generate_moves_knight are exactly the L-shaped jumps from the origin
\* that stay on the board, none reached by wrapping around an edge, and
\* find_valid_moves returns them less the mover's own squares; a knight on
\* A1 has exactly B3 and C2, a knight on D4 exactly 8 destinations.
C13_KnightJumps ==
    FoundFor(2) =>
        LET sq == SquareOf(last.move_from_bb)
            generated == OnBoard(generate_moves_knight(last.move_from_bb))
        IN  /\ generated = KnightJumps(sq)
            /\ OnBoard(last.legal_moves)
                  = KnightJumps(sq) \ UnionOf(OwnList(last.before))
            /\ sq = 0 => generated = {17, 10}
            /\ sq = 27 => Cardinality(generated) = 8

\* C13 witness: the moves of a knight alone on A1 have been found, and
\* they are B3 and C2.
C13_Witness ==
    /\ FoundFor(2)
    /\ last.move_from_bb = {0}
    /\ Occupied(last.before) = {0}
    /\ OnBoard(last.legal_moves) = {17, 10}

\* C14: on a board with consistent occupancy the destinations found for a
\* pawn are exactly the square one step forward if it is empty, the square
\* two steps forward if and only if the pawn is on its starting rank (rank
\* 2 for White, rank 7 for Black) and both squares ahead are empty, and
\* each forward-diagonal square if and only if it holds an opposing piece;
\* forward is increasing rank for White, decreasing rank for Black.
C14_PawnMoves ==
    FoundFor(0) =>
        last.legal_moves = PawnMoves(last.before, SquareOf(last.move_from_bb))

\* C14 witness: the moves of a Black pawn on its starting rank have been
\* found, with the square ahead empty, the second one occupied, and an
\* opposing piece to take on a forward diagonal.
C14_Witness ==
    LET b == last.before
        sq == SquareOf(last.move_from_bb)
    IN  /\ FoundFor(0)
        /\ b.current_turn = "Black"
        /\ RankOf(sq) = 6
        /\ StepFrom(sq, <<0, -1>>, 1) \in last.legal_moves
        /\ StepFrom(sq, <<0, -1>>, 2) \in Occupied(b)
        /\ PawnTakes(b, sq) # {}
        /\ PawnTakes(b, sq) \subseteq last.legal_moves

\* C15: on a board with consistent occupancy the destinations found for a
\* king are exactly the squares one step away in the eight directions that
\* are on the board (none across an edge) and hold no piece of the mover's
\* own side.
C15_KingSteps ==
    FoundFor(5) =>
        LET sq == SquareOf(last.move_from_bb)
            adjacent == {StepFrom(sq, d, 1) :
                            d \in {c \in Straight \cup Diagonal : StepOnBoard(sq, c, 1)}}
        IN  /\ last.legal_moves = adjacent \ UnionOf(OwnList(last.before))
            /\ last.legal_moves = SlideFrom(last.before, sq, Straight \cup Diagonal, 1)

\* C15 witness: the moves of a king on the A file have been found, with a
\* piece of his own side and an opposing piece on adjacent squares.
C15_Witness ==
    LET sq == SquareOf(last.move_from_bb)
        adjacent == {StepFrom(sq, d, 1) :
                        d \in {c \in Straight \cup Diagonal : StepOnBoard(sq, c, 1)}}
    IN  /\ FoundFor(5)
        /\ FileOf(sq) = 0
        /\ adjacent \cap UnionOf(OwnList(last.before)) # {}
        /\ adjacent \cap UnionOf(OppList(last.before)) \cap last.legal_moves # {}

\* C16: Board.convert_to_bitboard returns None, and raises nothing, for
\* every location that is no valid square label: a value that is no
\* string, a string whose length is not 2, a first character outside A-H
\* and a-h, a second character that is not one of the digits 1-8 (a letter
\* included).
C16_InvalidLabelIsNone ==
    (last.op = "convert_to_bitboard" /\ ~ValidLabel(last.location))
        => last.result.kind = "None"

\* C17: for each of the valid labels (a file letter A-H in either case and
\* a rank digit 1-8) convert_to_bitboard returns a mask with exactly one
\* bit, at index 8*(rank-1) + file index; the upper- and the lower-case
\* spelling give the same mask, labels of distinct squares give distinct
\* masks, and the label of the mask's square is the label given, in upper
\* case.
C17_LabelRoundTrip ==
    (last.op = "convert_to_bitboard" /\ ValidLabel(last.location)) =>
        /\ last.result.kind = "value"
        /\ last.result.bb = {SquareNamed(last.location)}
        /\ last.result.bb \subseteq 0..63
        /\ LabelOf(SquareOf(last.result.bb)) = Str(Upper(last.location.val))
        /\ convert_to_bitboard(Str(Upper(last.location.val))) = last.result
        /\ \A other \in Locations :
              (ValidLabel(other) /\ convert_to_bitboard(other) = last.result)
                  => Upper(other.val) = Upper(last.location.val)

\* C17 witness: the lower-case label h8 has been converted, to bit 63.
C17_Witness ==
    /\ last.op = "convert_to_bitboard"
    /\ last.location = Str(<<"h", "8">>)
    /\ last.result = Returned({63})

\* C18: the two move-result fields are read once and reading never fails:
\* get_piece_moved (and get_piece_captured) returns the name of the kind
\* recorded and clears the field, and returns None, raising nothing, when
\* the field is clear: on a second read with no accepted move in between
\* and on a read made before any move was accepted.
C18_ReadOnceNeverFails ==
    /\ last.op = "get_piece_moved" =>
          /\ board.piece_moved_index = None
          /\ last.ret = IF last.before.piece_moved_index = None THEN "None"
                        ELSE piece_names[last.before.piece_moved_index + 1]
    /\ last.op = "get_piece_captured" =>
          /\ board.piece_captured_index = None
          /\ last.ret = IF last.before.piece_captured_index = None THEN "None"
                        ELSE piece_names[last.before.piece_captured_index + 1]

\* C19: every set of legal destinations that find_valid_moves returns, for
\* every origin square of a reachable board, is a 64-bit bitboard: it has
\* no bit at index 64 or above.
C19_LegalMovesWithin64Bits ==
    \A sq \in 0..63 : legal_moves_from(board, {sq}).legal_moves \subseteq 0..63

\* C20: from the starting position with White to move, the pairs of origin
\* and destination that make_move accepts are exactly the 20 standard
\* opening moves (each pawn one or two squares forward, each knight to its
\* two squares of the third rank); each of them reports no capture and
\* passes the turn to Black.
C20_TwentyOpeningMoves ==
    /\ last.op = "init" =>
          \A move_from \in SquareLabels, move_to \in SquareLabels :
              (make_move(Game, move_from, move_to).ret = "True")
                  = (<<SquareNamed(move_from), SquareNamed(move_to)>> \in OpeningMoves)
    /\ (calls = 1 /\ last.op = "make_move" /\ last.ret = "True") =>
          /\ <<SquareOf(last.move_from_bb), SquareOf(last.move_to_bb)>> \in OpeningMoves
          /\ previous_move[1] = "White"
          /\ previous_move[5] = "None"
          /\ board.piece_captured_index = None
          /\ Occupied(board) = (Occupied(last.before) \ last.move_from_bb)
                                    \cup last.move_to_bb
          /\ Cardinality(Occupied(board)) = 32
          /\ board.current_turn = "Black"

\* C20 witness: the first call of a game was make_move("E2", "E4"); it was
\* accepted and it is Black's turn.
C20_Witness ==
    /\ calls = 1 /\ last.op = "make_move" /\ last.ret = "True"
    /\ last.move_from_bb = {12} /\ last.move_to_bb = {28}
    /\ previous_move = <<"White", "Pawn", Str(<<"E", "2">>), Str(<<"E", "4">>), "None">>
    /\ board.current_turn = "Black"

\* C21: whether execute_move accepts a move depends only on the twelve
\* piece masks and the turn, not on the calls made before: the board
\* reached and the board the last call was made on, whenever they have the
\* same piece masks and the same turn, give the same answer for every move.
C21_AnswerByPositionOnly ==
    MasksAndTurn(board) = MasksAndTurn(last.before) =>
        \A move_from \in Labels, move_to \in Labels :
            execute_move(board, move_from, move_to).ret
                = execute_move(last.before, move_from, move_to).ret

\* C22: on every reachable board, also right after a call rejected for an
\* illegal destination, an execute_move between two different squares
\* whose origin holds no piece of the side to move is rejected through the
\* no-piece-at-origin path (no piece reported found at the origin), never
\* through the illegal-destination path with a piece kind identified.
C22_NoPieceReported ==
    \A move_from \in Labels, move_to \in Labels :
        LET from == convert_to_bitboard(move_from)
            to == convert_to_bitboard(move_to)
        IN  (/\ from.kind = "value" /\ to.kind = "value" /\ from.bb # to.bb
             /\ from.bb \cap UnionOf(OwnList(board)) = {})
                => execute_move(board, move_from, move_to).path = "no_piece"

\* C23: a rejected execute_move changes none of the twelve piece masks,
\* neither side's occupancy mask, nor the turn; a rejected make_move also
\* changes neither the display board nor the recorded previous move.
C23_RejectedKeepsFrame ==
    [][(last'.op \in {"execute_move", "make_move"} /\ last'.ret = "False") =>
          /\ MasksSidesAndTurn(board') = MasksSidesAndTurn(board)
          /\ last'.op = "make_move" =>
                /\ board_display' = board_display
                /\ previous_move' = previous_move]_vars

\* C23 witness: a make_move has just been rejected for an illegal
\* destination in a game with a move already made.
C23_Witness ==
    /\ last.op = "make_move" /\ last.ret = "False" /\ last.path = "illegal_move"
    /\ previous_move # <<>>
    /\ board_display # setup_display

\* C24: across every accepted move the number of pieces of the moving side
\* is unchanged and the number of pieces of the opposing side is unchanged
\* or one less (one less exactly when the destination held an opposing
\* piece), counted by the piece masks and by the occupancy masks; no
\* accepted move lands on a square of the mover's own side; and no call
\* ever increases the total number of pieces, which starts at 32.
C24_PieceCounts ==
    LET before == last.before
        taken == IF OnOpponent THEN 1 ELSE 0
    IN  /\ Accepted =>
              /\ PieceCount(MoverList(board, before)) = PieceCount(MoverList(before, before))
              /\ PieceCount(OtherList(board, before))
                    = PieceCount(OtherList(before, before)) - taken
              /\ Cardinality(MoverAll(board, before)) = Cardinality(MoverAll(before, before))
              /\ Cardinality(OtherAll(board, before))
                    = Cardinality(OtherAll(before, before)) - taken
              /\ last.move_to_bb \cap UnionOf(MoverList(before, before)) = {}
        /\ PieceCount(board.white_pieces_list) + PieceCount(board.black_pieces_list)
              <= PieceCount(before.white_pieces_list) + PieceCount(before.black_pieces_list)
        /\ PieceCount(board.white_pieces_list) + PieceCount(board.black_pieces_list) <= 32

\* C24 witness: an accepted move of Black has just taken a White piece
\* after White had taken a Black one: 30 pieces are left.
C24_Witness ==
    /\ Accepted /\ OnOpponent
    /\ last.before.current_turn = "Black"
    /\ PieceCount(board.white_pieces_list) = 15
    /\ PieceCount(board.black_pieces_list) = 15

\* C25: after any sequence of make_move calls the display board matches
\* the bitboards square for square: a cell shows '.' exactly when no piece
\* mask of either side holds the square, and otherwise the letter (P, R, N,
\* B, Q, K) of the kind whose mask holds it, in a letter case that stands
\* for the same side throughout the game (as the code has it, upper case
\* for the pieces of Board's White masks, lower case for the Black ones).
C25_DisplayMatchesBitboards ==
    /\ DisplayShows(board_display, board, KindUpper, KindLower)
    /\ \A sq \in 0..63 :
          (board_display[RankOf(sq)][FileOf(sq)] = ".") = (sq \notin Occupied(board))

\* C25 witness: an accepted make_move of Black has just taken a White
\* piece, and the cell of the destination shows a lower-case letter.
C25_Witness ==
    /\ last.op = "make_move" /\ last.ret = "True" /\ OnOpponent
    /\ last.before.current_turn = "Black"
    /\ \E k \in 1..6 :
          board_display[RankOf(SquareOf(last.move_to_bb))][FileOf(SquareOf(last.move_to_bb))]
              = KindLower[k]
    /\ board_display[RankOf(SquareOf(last.move_from_bb))][FileOf(SquareOf(last.move_from_bb))]
          = "."

\* C26: in the display board every piece of Board's Black masks is shown
\* by an upper-case letter and every piece of Board's White masks (the
\* side that moves first) by a lower-case letter, from the initial setup
\* on and after every accepted move.
C26_BlackUpperWhiteLower ==
    DisplayShows(board_display, board, KindLower, KindUpper)

====
